---- MODULE Spec2Model ----
(***************************************************************************)
(* Real-time chat backend: the Socket.IO server (authentication            *)
(* middleware, connection handler, sendMessage, markAsRead, typing,        *)
(* addReaction, editMessage, deleteMessage, disconnect) and the REST chat  *)
(* controller (addMessage, editMessage, deleteMessage) working on the same *)
(* Message and Conversation collections.                                   *)
(*                                                                         *)
(* Every async handler is a task that advances one await at a time, so the *)
(* handlers of different connections interleave at exactly the points      *)
(* where the JavaScript code awaits a persistence call.                    *)
(*                                                                         *)
(* Persistence is Mongoose.  document.save() of a loaded document writes   *)
(* only the paths the handler modified: a scalar assignment or a           *)
(* Map.set(k, v) becomes a $set of that path, array.push becomes an atomic *)
(* $push that increments the version key __v, and assigning a whole array  *)
(* becomes a $set of the array guarded by the version key read at load     *)
(* time (a stale version makes save() throw VersionError).  Assigning to a *)
(* path the value it already has in the loaded copy does not mark the path *)
(* modified, so save() does not write it.                                  *)
(***************************************************************************)
EXTENDS Integers, Sequences, FiniteSets, TLC

\* ------------------------------------------------------------------ bounds
\* Number of Message documents ever created.
MaxMsgs == 2
\* Largest value of a message's version key __v (one per reaction toggle).
MaxVersion == 3

\* ------------------------------------------------------------ value sets
Users == {"u1", "u2"}
\* REST requests may also come from an authenticated user outside every conversation.
RestUsers == Users \cup {"u3"}
Sockets == {"s1", "s2", "s3"}
ConvIds == {"c1", "c2"}
Tasks == {"t1", "t2", "t3"}
Emojis == {"like", "heart"}
MsgIds == 1..MaxMsgs

NoUser == "none"
NoSocket == "none"
NoConv == "none"
NoImage == "none"
NoMsg == 0

\* The fixed tombstone written by both delete handlers.
TOMBSTONE == "This message has been deleted"

VARIABLES
  sockets,        \* live connections: socket id -> socket.user.id (NoUser: not connected)
  onlineUsers,    \* the onlineUsers Map: user id -> socket id (NoSocket: no entry)
  rooms,          \* socket id -> the conversation rooms the socket has joined
  messages,       \* the Message collection: _id -> document
  conversations,  \* the Conversation collection: _id -> document
  tasks,          \* the handler invocations in flight, with their local variables
  emitted         \* the events and HTTP responses sent by the last step

vars == <<sockets, onlineUsers, rooms, messages, conversations, tasks, emitted>>

\* ------------------------------------------------------------ events
\* One outbound event.  kind/dest give the addressee: "all" (io.emit),
\* "room" (io.to(conversationId)), "socket" (socket.emit or io.to(socketId)),
\* "others" (socket.to(room): the room except the socket `from`), "http"
\* (a REST response to user dest).
Event(name, kind, dest, user, msg, ids, text) ==
  [name |-> name, kind |-> kind, dest |-> dest, user |-> user,
   msg |-> msg, ids |-> ids, text |-> text, code |-> 0, from |-> NoSocket]

HttpResponse(user, code, text) ==
  [name |-> "response", kind |-> "http", dest |-> user, user |-> user,
   msg |-> NoMsg, ids |-> {}, text |-> text, code |-> code, from |-> NoSocket]

\* The live sockets joined to room c.
RoomSockets(c) == {s \in Sockets : sockets[s] # NoUser /\ c \in rooms[s]}

\* Mutation of the delivery: socket.to(room) behaves as io.to(room).
ReceiversWholeRoom(e) ==
  CASE e.kind = "all" -> {s \in Sockets : sockets[s] # NoUser}
    [] e.kind \in {"room", "others"} -> RoomSockets(e.dest)
    [] e.kind = "socket" -> {s \in Sockets : sockets[s] # NoUser /\ s = e.dest}
    [] OTHER -> {}

\* The live sockets an event reaches.
Receivers(e) ==
  CASE e.kind = "all" -> {s \in Sockets : sockets[s] # NoUser}
    [] e.kind = "room" -> RoomSockets(e.dest)
    [] e.kind = "others" -> RoomSockets(e.dest) \ {e.from}
    [] e.kind = "socket" -> {s \in Sockets : sockets[s] # NoUser /\ s = e.dest}
    [] OTHER -> {}

\* ------------------------------------------------------------ tasks
IdleTask ==
  [op |-> "idle", pc |-> "idle", sock |-> NoSocket, user |-> NoUser,
   conv |-> NoConv, rcpt |-> NoUser, msg |-> NoMsg, ids |-> {},
   emoji |-> "", content |-> "", image |-> NoImage,
   found |-> FALSE, count |-> 0, dirty |-> {}, mode |-> "", reactions |-> <<>>,
   version |-> 0]

Idle(t) == tasks[t].op = "idle"

\* ------------------------------------------------------------ presence
\* io.on("connection"): the socket is bound to the verified identity, the
\* onlineUsers entry of the user is overwritten with this socket, and the
\* online status goes to every connected socket.
Connect(s, u) ==
  /\ sockets[s] = NoUser
  /\ sockets' = [sockets EXCEPT ![s] = u]
  /\ onlineUsers' = [onlineUsers EXCEPT ![u] = s]
  /\ emitted' = {Event("userStatus", "all", "", u, NoMsg, {}, "online")}
  /\ UNCHANGED <<rooms, messages, conversations, tasks>>

\* Mutation of the disconnect handler: the entry is kept while the user has
\* another live socket.
DisconnectRegistryKeep(s) ==
  IF \E x \in Sockets \ {s} : sockets[x] = sockets[s]
  THEN onlineUsers
  ELSE [onlineUsers EXCEPT ![sockets[s]] = NoSocket]

\* What the disconnect handler does to the onlineUsers Map.
DisconnectRegistry(s) ==
  [onlineUsers EXCEPT ![sockets[s]] = NoSocket]

\* socket.on("disconnect"): the entry of the user is deleted and the offline
\* status is broadcast.  Socket.IO itself removes the socket from its rooms.
Disconnect(s) ==
  /\ sockets[s] # NoUser
  /\ onlineUsers' = DisconnectRegistry(s)
  /\ emitted' = {Event("userStatus", "all", "", sockets[s], NoMsg, {}, "offline")}
  /\ sockets' = [sockets EXCEPT ![s] = NoUser]
  /\ rooms' = [rooms EXCEPT ![s] = {}]
  /\ UNCHANGED <<messages, conversations, tasks>>

\* socket.on("joinConversation")
JoinConversation(s, c) ==
  /\ sockets[s] # NoUser
  /\ rooms' = [rooms EXCEPT ![s] = @ \cup {c}]
  /\ emitted' = {}
  /\ UNCHANGED <<sockets, onlineUsers, messages, conversations, tasks>>

\* socket.on("leaveConversation")
LeaveConversation(s, c) ==
  /\ sockets[s] # NoUser
  /\ rooms' = [rooms EXCEPT ![s] = @ \ {c}]
  /\ emitted' = {}
  /\ UNCHANGED <<sockets, onlineUsers, messages, conversations, tasks>>

\* socket.on("typing"): the flag is relayed with socket.to(conversationId),
\* that is to the room without the sending socket; nothing is stored.
Typing(s, c, isTyping) ==
  /\ sockets[s] # NoUser
  /\ emitted' = {[Event("userTyping", "others", c, sockets[s], NoMsg, {}, isTyping)
                    EXCEPT !.from = s]}
  /\ UNCHANGED <<sockets, onlineUsers, rooms, messages, conversations, tasks>>

\* ------------------------------------------------------------ authentication
\* The handshake tokens a client may present: none, a malformed one, one
\* whose signature or expiry check fails although it names u1, and the
\* tokens signed for the users.
NoToken == ""
TokenFor == [u \in Users |-> IF u = "u1" THEN "tok_u1" ELSE "tok_u2"]
IssuedTokens == {TokenFor[u] : u \in Users}
Tokens == {NoToken, "malformed", "expired_u1"} \cup IssuedTokens

\* Mutation of the verifier: the payload is decoded without checking the
\* signature or the expiry.
JwtDecode(token) ==
  IF token \in IssuedTokens THEN CHOOSE u \in Users : TokenFor[u] = token
  ELSE IF token = "expired_u1" THEN "u1"
  ELSE NoUser

\* jwt.verify(token, JWT_SECRET): the id of the decoded payload, or NoUser
\* when verify throws.
JwtVerify(token) ==
  IF token \in IssuedTokens THEN CHOOSE u \in Users : TokenFor[u] = token
  ELSE NoUser

\* next(new Error(text)): Socket.IO refuses the handshake and reports the
\* error to the client that attempted it.
ConnectError(s, text) == Event("connect_error", "handshake", s, NoUser, NoMsg, {}, text)

\* io.use(...): the authentication middleware, followed by the connection
\* handler when it calls next() without an error.
Handshake(s, token) ==
  /\ sockets[s] = NoUser
  /\ IF token = NoToken
     THEN /\ emitted' = {ConnectError(s, "Authentication error: Token not provided")}
          /\ UNCHANGED <<sockets, onlineUsers, rooms, messages, conversations, tasks>>
     ELSE IF JwtVerify(token) = NoUser
     THEN /\ emitted' = {ConnectError(s, "Authentication error: Invalid token")}
          /\ UNCHANGED <<sockets, onlineUsers, rooms, messages, conversations, tasks>>
     ELSE Connect(s, JwtVerify(token))

\* ------------------------------------------------------------ documents
\* unreadCount.get(k) || 0
UnreadGet(conv, k) ==
  IF k \in DOMAIN conv.unreadCount THEN conv.unreadCount[k] ELSE 0

\* Map.set(k, v)
MapSet(f, k, v) ==
  [x \in (DOMAIN f) \cup {k} |-> IF x = k THEN v ELSE f[x]]

\* new Message(messagePayload) / Message.create({...}): read is false, and
\* edited, deleted, reactions and the version key start at their defaults.
NewMessage(sender, rcpt, conv, content, image) ==
  [sender |-> sender, recipient |-> rcpt, conversationId |-> conv,
   content |-> content, image |-> image, read |-> FALSE,
   edited |-> FALSE, deleted |-> FALSE, reactions |-> <<>>, version |-> 0]

\* Conversation.create in findOrCreateConversation: both participants at 0.
CreatedConversation(u, rcpt) ==
  [participants |-> <<u, rcpt>>, lastMessage |-> NoMsg,
   unreadCount |-> [x \in {u, rcpt} |-> 0]]

\* new Conversation on sendMessage's defensive path: only the recipient is
\* given an unread counter.
DefensiveConversation(u, rcpt, m) ==
  [participants |-> <<u, rcpt>>, lastMessage |-> m,
   unreadCount |-> [x \in {rcpt} |-> 1]]

\* The counter sendMessage writes for the recipient: the value read from the
\* loaded conversation, plus one.
IncrementedCount(conv, rcpt) == UnreadGet(conv, rcpt) + 1

\* Mutation of the conversation save: the counter is written, lastMessage
\* is not.
SaveCountNotLast(c, m, k, v) ==
  [conversations EXCEPT ![c].unreadCount = MapSet(@, k, v)]

\* conversation.save() of a loaded conversation after lastMessage and one
\* unreadCount key were modified: only those two paths are written.
SaveLastAndCount(c, m, k, v) ==
  [conversations EXCEPT ![c].lastMessage = m,
                        ![c].unreadCount = MapSet(@, k, v)]

\* conversation.save() after unreadCount.set(userId, 0).
SaveCount(c, k, v) ==
  [conversations EXCEPT ![c].unreadCount = MapSet(@, k, v)]

\* unreadCount.set(k, v) on a loaded conversation marks the key modified
\* unless the loaded Map already holds v under k.
SetCountPaths(conv, k, v) ==
  IF k \in DOMAIN conv.unreadCount /\ conv.unreadCount[k] = v
  THEN {} ELSE {"unreadCount"}

\* Message.updateMany({_id: {$in: messageIds}}, {read: true})
UpdateManyRead(ids) ==
  [m \in DOMAIN messages |->
     IF m \in ids THEN [messages[m] EXCEPT !.read = TRUE] ELSE messages[m]]

Finish(t) == [tasks EXCEPT ![t] = IdleTask]

\* Message documents that exist or that an addMessage in flight will create.
CanCreate ==
  Len(messages) + Cardinality({t \in Tasks : tasks[t].pc = "create"}) < MaxMsgs

\* ------------------------------------------------------------ sendMessage
\* socket.on("sendMessage") up to `await newMessage.save()`: the payload is
\* built from the client's fields and the message is inserted.
SendMessageStart(t, s, rcpt, c, content, image) ==
  /\ Idle(t)
  /\ sockets[s] # NoUser
  /\ CanCreate
  /\ messages' = Append(messages, NewMessage(sockets[s], rcpt, c, content, image))
  /\ tasks' = [tasks EXCEPT ![t] =
       [IdleTask EXCEPT !.op = "sendMessage", !.pc = "find", !.sock = s,
                        !.user = sockets[s], !.rcpt = rcpt, !.conv = c,
                        !.msg = Len(messages) + 1]]
  /\ emitted' = {}
  /\ UNCHANGED <<sockets, onlineUsers, rooms, conversations>>

\* `await Conversation.findById(conversationId)` and the synchronous update
\* of the loaded copy (or the construction of a new conversation).
SendMessageFind(t) ==
  LET c == tasks[t].conv IN
  /\ tasks[t].op = "sendMessage" /\ tasks[t].pc = "find"
  /\ tasks' = [tasks EXCEPT ![t].pc = "save",
                            ![t].found = (c \in DOMAIN conversations),
                            ![t].count = IF c \in DOMAIN conversations
                                         THEN IncrementedCount(conversations[c], tasks[t].rcpt)
                                         ELSE 1]
  /\ emitted' = {}
  /\ UNCHANGED <<sockets, onlineUsers, rooms, messages, conversations>>

\* onlineUsers.get(u): the socket id held for u, if any.
OnlineSocket(u) == IF u \in DOMAIN onlineUsers THEN onlineUsers[u] ELSE NoSocket

\* The events after a successful conversation.save(): newMessage to the
\* room, and messageNotification to the socket onlineUsers holds for the
\* recipient, if any.
SendMessageEvents(c, m, rcpt) ==
  {Event("newMessage", "room", c, NoUser, m, {}, "")}
  \cup (IF OnlineSocket(rcpt) # NoSocket
        THEN {Event("messageNotification", "socket", OnlineSocket(rcpt), NoUser, m, {}, c)}
        ELSE {})

\* `await conversation.save()` and the emits.  Saving a new conversation
\* whose _id was inserted meanwhile fails with a duplicate key error, which
\* the catch block turns into messageError.
SendMessageSave(t) ==
  LET c == tasks[t].conv
      k == tasks[t] IN
  /\ k.op = "sendMessage" /\ k.pc = "save"
  /\ IF k.found
     THEN /\ conversations' = SaveLastAndCount(c, k.msg, k.rcpt, k.count)
          /\ emitted' = SendMessageEvents(c, k.msg, k.rcpt)
     ELSE IF c \notin DOMAIN conversations
     THEN /\ conversations' = MapSet(conversations, c,
                                     DefensiveConversation(k.user, k.rcpt, k.msg))
          /\ emitted' = SendMessageEvents(c, k.msg, k.rcpt)
     ELSE /\ conversations' = conversations
          /\ emitted' = {Event("messageError", "socket", k.sock, NoUser, NoMsg, {},
                               "Failed to send message")}
  /\ tasks' = Finish(t)
  /\ UNCHANGED <<sockets, onlineUsers, rooms, messages>>

\* ------------------------------------------------------------ sendMessage failures
\* The catch block of sendMessage: messageError to the sending socket.
MessageError(s) ==
  Event("messageError", "socket", s, NoUser, NoMsg, {}, "Failed to send message")

\* `await newMessage.save()` throws: nothing was inserted.
SendMessageInsertThrows(t, s) ==
  /\ Idle(t)
  /\ sockets[s] # NoUser
  /\ emitted' = {MessageError(s)}
  /\ UNCHANGED <<sockets, onlineUsers, rooms, messages, conversations, tasks>>

\* A persistence call after the insert throws: populate or
\* Conversation.findById (pc "find"), or conversation.save() (pc "save").
\* The handler ends in its catch block; the message stays inserted.
SendMessageThrows(t, pc) ==
  /\ tasks[t].op = "sendMessage" /\ tasks[t].pc = pc
  /\ emitted' = {MessageError(tasks[t].sock)}
  /\ tasks' = Finish(t)
  /\ UNCHANGED <<sockets, onlineUsers, rooms, messages, conversations>>

\* ------------------------------------------------------------ markAsRead
\* socket.on("markAsRead") up to `await Message.updateMany(...)`.
MarkAsReadStart(t, s, c, ids) ==
  /\ Idle(t)
  /\ sockets[s] # NoUser
  /\ messages' = UpdateManyRead(ids)
  /\ tasks' = [tasks EXCEPT ![t] =
       [IdleTask EXCEPT !.op = "markAsRead", !.pc = "find", !.sock = s,
                        !.user = sockets[s], !.conv = c, !.ids = ids]]
  /\ emitted' = {}
  /\ UNCHANGED <<sockets, onlineUsers, rooms, conversations>>

MessagesRead(c, u, ids) == Event("messagesRead", "room", c, u, NoMsg, ids, "")

\* `await Conversation.findById(conversationId)`; without a conversation the
\* read receipt is emitted at once.
MarkAsReadFind(t) ==
  LET k == tasks[t] IN
  /\ k.op = "markAsRead" /\ k.pc = "find"
  /\ IF k.conv \in DOMAIN conversations
     THEN /\ tasks' = [tasks EXCEPT ![t].pc = "save", ![t].found = TRUE,
                 ![t].dirty = SetCountPaths(conversations[k.conv], k.user, 0)]
          /\ emitted' = {}
     ELSE /\ tasks' = Finish(t)
          /\ emitted' = {MessagesRead(k.conv, k.user, k.ids)}
  /\ UNCHANGED <<sockets, onlineUsers, rooms, messages, conversations>>

\* unreadCount.set(userId, 0), `await conversation.save()` and the receipt.
MarkAsReadSave(t) ==
  LET k == tasks[t] IN
  /\ k.op = "markAsRead" /\ k.pc = "save"
  /\ conversations' = IF "unreadCount" \in k.dirty
                      THEN SaveCount(k.conv, k.user, 0)
                      ELSE conversations
  /\ emitted' = {MessagesRead(k.conv, k.user, k.ids)}
  /\ tasks' = Finish(t)
  /\ UNCHANGED <<sockets, onlineUsers, rooms, messages>>

\* ------------------------------------------------------------ markAsRead failures
\* logger.error(text, error): a line in the server log; no socket gets it.
LogError(text) == Event("log", "logger", "", NoUser, NoMsg, {}, text)

\* `await Message.updateMany(...)` throws: the catch block of markAsRead
\* logs the error and the handler ends.
MarkAsReadUpdateThrows(t, s) ==
  /\ Idle(t)
  /\ sockets[s] # NoUser
  /\ emitted' = {LogError("Error marking messages as read:")}
  /\ UNCHANGED <<sockets, onlineUsers, rooms, messages, conversations, tasks>>

\* Conversation.findById (pc "find") or conversation.save() (pc "save")
\* throws: the same catch block; the messages stay marked read.
MarkAsReadThrows(t, pc) ==
  /\ tasks[t].op = "markAsRead" /\ tasks[t].pc = pc
  /\ emitted' = {LogError("Error marking messages as read:")}
  /\ tasks' = Finish(t)
  /\ UNCHANGED <<sockets, onlineUsers, rooms, messages, conversations>>

\* ------------------------------------------------------------ REST addMessage
\* String.prototype.trim on the contents the model sends.
Trim(str) ==
  CASE str = " " -> ""
    [] str = " hi " -> "hi"
    [] str = " new " -> "new"
    [] OTHER -> str

\* conversation.participants.find((p) => p.toString() !== userId)
OtherParticipant(conv, u) ==
  IF conv.participants[1] # u THEN conv.participants[1]
  ELSE IF conv.participants[2] # u THEN conv.participants[2]
  ELSE NoUser

\* conversation.participants.includes(userId)
IsParticipant(conv, u) == \E i \in DOMAIN conv.participants : conv.participants[i] = u

\* addMessage up to `await Message.create(...)`: validation, the lookup of
\* the conversation, the access check and the choice of the recipient.
AddMessageStart(t, u, c, content, image) ==
  /\ Idle(t)
  /\ CanCreate
  /\ IF Trim(content) = "" /\ image = NoImage
     THEN /\ emitted' = {HttpResponse(u, 400, "Message must have text or an image")}
          /\ tasks' = tasks
     ELSE IF c \notin DOMAIN conversations
     THEN /\ emitted' = {HttpResponse(u, 404, "Conversation not found")}
          /\ tasks' = tasks
     ELSE IF ~IsParticipant(conversations[c], u)
     THEN /\ emitted' = {HttpResponse(u, 403, "No access to this conversation")}
          /\ tasks' = tasks
     ELSE /\ emitted' = {}
          /\ tasks' = [tasks EXCEPT ![t] =
               [IdleTask EXCEPT !.op = "addMessage", !.pc = "create", !.user = u,
                   !.conv = c, !.rcpt = OtherParticipant(conversations[c], u),
                   !.content = Trim(content), !.image = image,
                   !.count = IncrementedCount(conversations[c],
                                              OtherParticipant(conversations[c], u))]]
  /\ UNCHANGED <<sockets, onlineUsers, rooms, messages, conversations>>

\* `await Message.create({...})`
AddMessageCreate(t) ==
  LET k == tasks[t] IN
  /\ k.op = "addMessage" /\ k.pc = "create"
  /\ messages' = Append(messages, NewMessage(k.user, k.rcpt, k.conv, k.content, k.image))
  /\ tasks' = [tasks EXCEPT ![t].pc = "save", ![t].msg = Len(messages) + 1]
  /\ emitted' = {}
  /\ UNCHANGED <<sockets, onlineUsers, rooms, conversations>>

\* lastMessage and the other participant's counter are set on the copy
\* loaded at the start, then `await conversation.save()` and the 201.
AddMessageSave(t) ==
  LET k == tasks[t] IN
  /\ k.op = "addMessage" /\ k.pc = "save"
  /\ conversations' =
       IF k.rcpt # NoUser
       THEN SaveLastAndCount(k.conv, k.msg, k.rcpt, k.count)
       ELSE [conversations EXCEPT ![k.conv].lastMessage = k.msg]
  /\ emitted' = {HttpResponse(k.user, 201, "")}
  /\ tasks' = Finish(t)
  /\ UNCHANGED <<sockets, onlineUsers, rooms, messages>>

\* ------------------------------------------------------------ addReaction
\* message.reactions.find((r) => r.user.toString() === userId && r.emoji === emoji)
HasReaction(rs, u, e) == \E i \in DOMAIN rs : rs[i].user = u /\ rs[i].emoji = e

\* Mutation of the filter: only the first matching reaction is removed.
WithoutFirstReaction(rs, u, e) ==
  LET first == CHOOSE i \in DOMAIN rs :
                 /\ rs[i].user = u /\ rs[i].emoji = e
                 /\ \A j \in 1..(i - 1) : ~(rs[j].user = u /\ rs[j].emoji = e)
  IN IF HasReaction(rs, u, e)
     THEN SubSeq(rs, 1, first - 1) \o SubSeq(rs, first + 1, Len(rs))
     ELSE rs

\* message.reactions.filter((r) => !(r.user.toString() === userId && r.emoji === emoji))
WithoutReaction(rs, u, e) == SelectSeq(rs, LAMBDA r : ~(r.user = u /\ r.emoji = e))

\* The reactions array of the loaded copy after the toggle: the matching
\* reactions filtered out, or the new reaction pushed.
ToggledReactions(rs, u, e) ==
  IF HasReaction(rs, u, e)
  THEN WithoutReaction(rs, u, e)
  ELSE Append(rs, [user |-> u, emoji |-> e])

\* How save() will write the array: push registers an atomic $push, the
\* assignment of the filtered array a versioned $set of the whole array.
ToggleMode(rs, u, e) == IF HasReaction(rs, u, e) THEN "set" ELSE "push"

\* Reaction toggles that can still increment the version key of message m.
CanToggle(m) ==
  messages[m].version
    + Cardinality({t \in Tasks : tasks[t].op = "addReaction" /\ tasks[t].msg = m})
    < MaxVersion

\* socket.on("addReaction") up to `await message.save()`: the message is
\* loaded and the toggle is applied to the loaded copy.
AddReactionStart(t, s, m, e) ==
  /\ Idle(t)
  /\ sockets[s] # NoUser
  /\ IF m \notin DOMAIN messages
     THEN /\ emitted' = {Event("reactionError", "socket", s, NoUser, NoMsg, {},
                               "Message not found")}
          /\ tasks' = tasks
     ELSE /\ CanToggle(m)
          /\ emitted' = {}
          /\ tasks' = [tasks EXCEPT ![t] =
               [IdleTask EXCEPT !.op = "addReaction", !.pc = "save", !.sock = s,
                   !.user = sockets[s], !.msg = m, !.emoji = e,
                   !.conv = messages[m].conversationId,
                   !.mode = ToggleMode(messages[m].reactions, sockets[s], e),
                   !.reactions = ToggledReactions(messages[m].reactions, sockets[s], e),
                   !.version = messages[m].version]]
  /\ UNCHANGED <<sockets, onlineUsers, rooms, messages, conversations>>

\* The update of a versioned $set matches only the version that was loaded.
ReactionSaveMatches(doc, k) == k.mode = "push" \/ doc.version = k.version

\* Mutation of the save: the array of the loaded copy replaces what is stored.
SavedReactionsOverwrite(doc, k) == k.reactions

\* The stored array after the save: $push appends the pushed reaction to
\* what is stored, $set replaces it with the array of the loaded copy.
SavedReactions(doc, k) ==
  IF k.mode = "push"
  THEN Append(doc.reactions, k.reactions[Len(k.reactions)])
  ELSE k.reactions

\* `await message.save()` and the reactionUpdate to the room; a version
\* conflict is caught and reported as reactionError.
AddReactionSave(t) ==
  LET k == tasks[t] IN
  /\ k.op = "addReaction" /\ k.pc = "save"
  /\ IF ReactionSaveMatches(messages[k.msg], k)
     THEN /\ messages' = [messages EXCEPT
                 ![k.msg].reactions = SavedReactions(messages[k.msg], k),
                 ![k.msg].version = @ + 1]
          /\ emitted' = {Event("reactionUpdate", "room", k.conv, NoUser, k.msg, {}, "")}
     ELSE /\ messages' = messages
          /\ emitted' = {Event("reactionError", "socket", k.sock, NoUser, NoMsg, {},
                               "Failed to add reaction")}
  /\ tasks' = Finish(t)
  /\ UNCHANGED <<sockets, onlineUsers, rooms, conversations>>

\* ------------------------------------------------------------ edit and delete
\* Mutation of the ownership check: any party of the message passes.
NotSenderNorRecipient(doc, u) == doc.sender # u /\ doc.recipient # u

\* message.sender.toString() !== userId
NotSender(doc, u) == doc.sender # u

\* The paths an edit marks modified on the loaded copy.
EditPaths(doc, content) ==
  (IF doc.content # content THEN {"content"} ELSE {})
  \cup (IF ~doc.edited THEN {"edited"} ELSE {})

\* The paths a delete marks modified on the loaded copy.
DeletePaths(doc) ==
  (IF ~doc.deleted THEN {"deleted"} ELSE {})
  \cup (IF doc.content # TOMBSTONE THEN {"content"} ELSE {})
  \cup (IF doc.image # NoImage THEN {"image"} ELSE {})

\* message.save() after an edit: the modified paths are written.
SaveEdit(doc, k) ==
  [doc EXCEPT !.content = IF "content" \in k.dirty THEN k.content ELSE @,
              !.edited = IF "edited" \in k.dirty THEN TRUE ELSE @]

\* message.save() after a delete: the modified paths are written.
SaveDelete(doc, k) ==
  [doc EXCEPT !.deleted = IF "deleted" \in k.dirty THEN TRUE ELSE @,
              !.content = IF "content" \in k.dirty THEN TOMBSTONE ELSE @,
              !.image = IF "image" \in k.dirty THEN NoImage ELSE @]

EditError(s, text) == Event("editError", "socket", s, NoUser, NoMsg, {}, text)
DeleteError(s, text) == Event("deleteError", "socket", s, NoUser, NoMsg, {}, text)

\* socket.on("editMessage") up to `await message.save()`.
EditMessageStart(t, s, m, content) ==
  /\ Idle(t)
  /\ sockets[s] # NoUser
  /\ IF m \notin DOMAIN messages
     THEN /\ emitted' = {EditError(s, "Message not found")}
          /\ tasks' = tasks
     ELSE IF NotSender(messages[m], sockets[s])
     THEN /\ emitted' = {EditError(s, "You can only edit your own messages")}
          /\ tasks' = tasks
     ELSE /\ emitted' = {}
          /\ tasks' = [tasks EXCEPT ![t] =
               [IdleTask EXCEPT !.op = "editMessage", !.pc = "save", !.sock = s,
                   !.user = sockets[s], !.msg = m, !.content = content,
                   !.conv = messages[m].conversationId,
                   !.dirty = EditPaths(messages[m], content)]]
  /\ UNCHANGED <<sockets, onlineUsers, rooms, messages, conversations>>

\* `await message.save()` and the messageEdited broadcast.
EditMessageSave(t) ==
  LET k == tasks[t] IN
  /\ k.op = "editMessage" /\ k.pc = "save"
  /\ messages' = [messages EXCEPT ![k.msg] = SaveEdit(@, k)]
  /\ emitted' = {Event("messageEdited", "room", k.conv, NoUser, k.msg, {}, "")}
  /\ tasks' = Finish(t)
  /\ UNCHANGED <<sockets, onlineUsers, rooms, conversations>>

\* socket.on("deleteMessage") up to `await message.save()`.
DeleteMessageStart(t, s, m) ==
  /\ Idle(t)
  /\ sockets[s] # NoUser
  /\ IF m \notin DOMAIN messages
     THEN /\ emitted' = {DeleteError(s, "Message not found")}
          /\ tasks' = tasks
     ELSE IF NotSender(messages[m], sockets[s])
     THEN /\ emitted' = {DeleteError(s, "You can only delete your own messages")}
          /\ tasks' = tasks
     ELSE /\ emitted' = {}
          /\ tasks' = [tasks EXCEPT ![t] =
               [IdleTask EXCEPT !.op = "deleteMessage", !.pc = "save", !.sock = s,
                   !.user = sockets[s], !.msg = m,
                   !.conv = messages[m].conversationId,
                   !.dirty = DeletePaths(messages[m])]]
  /\ UNCHANGED <<sockets, onlineUsers, rooms, messages, conversations>>

\* `await message.save()` and the messageDeleted broadcast.
DeleteMessageSave(t) ==
  LET k == tasks[t] IN
  /\ k.op = "deleteMessage" /\ k.pc = "save"
  /\ messages' = [messages EXCEPT ![k.msg] = SaveDelete(@, k)]
  /\ emitted' = {Event("messageDeleted", "room", k.conv, k.user, k.msg, {}, "")}
  /\ tasks' = Finish(t)
  /\ UNCHANGED <<sockets, onlineUsers, rooms, conversations>>

\* REST editMessage up to `await message.save()`: the content check comes
\* first, then the lookup and the sender check.
RestEditMessageStart(t, u, m, content) ==
  /\ Idle(t)
  /\ IF Trim(content) = ""
     THEN /\ emitted' = {HttpResponse(u, 400, "Message content cannot be empty")}
          /\ tasks' = tasks
     ELSE IF m \notin DOMAIN messages
     THEN /\ emitted' = {HttpResponse(u, 404, "Message not found")}
          /\ tasks' = tasks
     ELSE IF NotSender(messages[m], u)
     THEN /\ emitted' = {HttpResponse(u, 403, "You can only edit your own messages")}
          /\ tasks' = tasks
     ELSE /\ emitted' = {}
          /\ tasks' = [tasks EXCEPT ![t] =
               [IdleTask EXCEPT !.op = "restEditMessage", !.pc = "save", !.user = u,
                   !.msg = m, !.content = Trim(content),
                   !.conv = messages[m].conversationId,
                   !.dirty = EditPaths(messages[m], Trim(content))]]
  /\ UNCHANGED <<sockets, onlineUsers, rooms, messages, conversations>>

\* `await message.save()` and the 200 with the message.
RestEditMessageSave(t) ==
  LET k == tasks[t] IN
  /\ k.op = "restEditMessage" /\ k.pc = "save"
  /\ messages' = [messages EXCEPT ![k.msg] = SaveEdit(@, k)]
  /\ emitted' = {HttpResponse(k.user, 200, "")}
  /\ tasks' = Finish(t)
  /\ UNCHANGED <<sockets, onlineUsers, rooms, conversations>>

\* REST deleteMessage up to `await message.save()`.
RestDeleteMessageStart(t, u, m) ==
  /\ Idle(t)
  /\ IF m \notin DOMAIN messages
     THEN /\ emitted' = {HttpResponse(u, 404, "Message not found")}
          /\ tasks' = tasks
     ELSE IF NotSender(messages[m], u)
     THEN /\ emitted' = {HttpResponse(u, 403, "You can only delete your own messages")}
          /\ tasks' = tasks
     ELSE /\ emitted' = {}
          /\ tasks' = [tasks EXCEPT ![t] =
               [IdleTask EXCEPT !.op = "restDeleteMessage", !.pc = "save", !.user = u,
                   !.msg = m, !.conv = messages[m].conversationId,
                   !.dirty = DeletePaths(messages[m])]]
  /\ UNCHANGED <<sockets, onlineUsers, rooms, messages, conversations>>

\* `await message.save()` and the 200.
RestDeleteMessageSave(t) ==
  LET k == tasks[t] IN
  /\ k.op = "restDeleteMessage" /\ k.pc = "save"
  /\ messages' = [messages EXCEPT ![k.msg] = SaveDelete(@, k)]
  /\ emitted' = {HttpResponse(k.user, 200, "Message deleted successfully")}
  /\ tasks' = Finish(t)
  /\ UNCHANGED <<sockets, onlineUsers, rooms, conversations>>

\* ------------------------------------------------------------ initial state
\* The server after initSocketServer: nobody connected, empty collections.
Init ==
  /\ sockets = [s \in Sockets |-> NoUser]
  /\ onlineUsers = [u \in Users |-> NoSocket]
  /\ rooms = [s \in Sockets |-> {}]
  /\ messages = <<>>
  /\ conversations = [c \in {} |-> 0]
  /\ tasks = [t \in Tasks |-> IdleTask]
  /\ emitted = {}

NextPresence ==
  \/ \E s \in Sockets, u \in Users : Connect(s, u)
  \/ \E s \in Sockets : Disconnect(s)
  \/ \E s \in Sockets, c \in ConvIds : JoinConversation(s, c)
  \/ \E s \in Sockets, c \in ConvIds : LeaveConversation(s, c)

SpecPresence == Init /\ [][NextPresence]_vars

\* ------------------------------------------------------------ conversation specifications
\* Three connections (two of them of user u1) and the conversation c1 that
\* findOrCreateConversation created for u1 and u2; c2 does not exist yet.
InitConv ==
  /\ sockets = [s \in Sockets |-> IF s = "s2" THEN "u2" ELSE "u1"]
  /\ onlineUsers = [u \in Users |-> IF u = "u1" THEN "s3" ELSE "s2"]
  /\ rooms = [s \in Sockets |-> IF s = "s1" THEN {"c1"} ELSE {}]
  /\ messages = <<>>
  /\ conversations = [c \in {"c1"} |-> CreatedConversation("u1", "u2")]
  /\ tasks = [t \in Tasks |-> IdleTask]
  /\ emitted = {}

\* The messages of conversation c addressed to p that are still unread.
UnreadMessages(c, p) ==
  {m \in DOMAIN messages : /\ messages[m].conversationId = c
                           /\ messages[m].recipient = p
                           /\ ~messages[m].read}

\* Contents a client sends.
SendContents == {"hi"}
RestContents == {" hi ", " "}

SendMessageStep(t) ==
  \/ \E s \in Sockets, c \in ConvIds, content \in SendContents :
       \E rcpt \in Users \ {sockets[s]} :
         SendMessageStart(t, s, rcpt, c, content, NoImage)
  \/ SendMessageFind(t)
  \/ SendMessageSave(t)

\* A reader that names some of the unread messages addressed to it in the
\* conversation: possibly all of them, possibly only a part.
MarkAsReadStep(t) ==
  \/ \E s \in Sockets, c \in ConvIds :
       \E ids \in SUBSET UnreadMessages(c, sockets[s]) : MarkAsReadStart(t, s, c, ids)
  \/ MarkAsReadFind(t)
  \/ MarkAsReadSave(t)

AddMessageStep(t) ==
  \/ \E u \in RestUsers, c \in ConvIds, content \in RestContents :
       AddMessageStart(t, u, c, content, NoImage)
  \/ AddMessageCreate(t)
  \/ AddMessageSave(t)

\* The same operations, one at a time: a single handler is ever in flight.
NextConvSeq == SendMessageStep("t1") \/ MarkAsReadStep("t1") \/ AddMessageStep("t1")
SpecConvSeq == InitConv /\ [][NextConvSeq]_vars

\* Only sendMessage handlers, interleaving.
NextSend == \E t \in {"t1", "t2"} : SendMessageStep(t)
SpecSend == InitConv /\ [][NextSend]_vars

\* ------------------------------------------------------------ message specifications
\* The state after u1 sent message 1 ("hi", with or without an image) to u2
\* in conversation c1.
InitMsg ==
  /\ sockets = [s \in Sockets |-> IF s = "s2" THEN "u2" ELSE "u1"]
  /\ onlineUsers = [u \in Users |-> IF u = "u1" THEN "s3" ELSE "s2"]
  /\ rooms = [s \in Sockets |-> IF s = "s1" THEN {"c1"} ELSE {}]
  /\ \E image \in {NoImage, "img"} :
       messages = <<NewMessage("u1", "u2", "c1", "hi", image)>>
  /\ conversations =
       [c \in {"c1"} |-> [CreatedConversation("u1", "u2") EXCEPT
                            !.lastMessage = 1, !.unreadCount["u2"] = 1]]
  /\ tasks = [t \in Tasks |-> IdleTask]
  /\ emitted = {}

EditContents == {"new", " "}

AddReactionStep(t) ==
  \/ \E s \in Sockets, m \in MsgIds, e \in Emojis : AddReactionStart(t, s, m, e)
  \/ AddReactionSave(t)

EditMessageStep(t) ==
  \/ \E s \in Sockets, m \in MsgIds, content \in EditContents :
       EditMessageStart(t, s, m, content)
  \/ EditMessageSave(t)

DeleteMessageStep(t) ==
  \/ \E s \in Sockets, m \in MsgIds : DeleteMessageStart(t, s, m)
  \/ DeleteMessageSave(t)

RestEditMessageStep(t) ==
  \/ \E u \in RestUsers, m \in MsgIds, content \in EditContents :
       RestEditMessageStart(t, u, m, content)
  \/ RestEditMessageSave(t)

RestDeleteMessageStep(t) ==
  \/ \E u \in RestUsers, m \in MsgIds : RestDeleteMessageStart(t, u, m)
  \/ RestDeleteMessageSave(t)

\* Reaction toggles from all connections, interleaving, with deletes.
NextReact ==
  \/ \E t \in {"t1", "t2"} : AddReactionStep(t)
  \/ DeleteMessageStep("t3")
SpecReact == InitMsg /\ [][NextReact]_vars

\* Two users toggle the same emoji on message 1, both loading the message
\* before either has saved (its version key is still 0 at every load), while
\* the sender edits or deletes the message.
PairStart(t, u) ==
  /\ messages[1].version = 0
  /\ \E s \in Sockets : sockets[s] = u /\ AddReactionStart(t, s, 1, "like")

NextReactPair ==
  \/ PairStart("t1", "u1")
  \/ AddReactionSave("t1")
  \/ PairStart("t2", "u2")
  \/ AddReactionSave("t2")
  \/ EditMessageStep("t3")
  \/ DeleteMessageStep("t3")
SpecReactPair == InitMsg /\ [][NextReactPair]_vars

\* Edits and deletes over the sockets and over REST, interleaving.
NextEdit ==
  \E t \in {"t1", "t2"} :
    \/ EditMessageStep(t)
    \/ DeleteMessageStep(t)
    \/ RestEditMessageStep(t)
    \/ RestDeleteMessageStep(t)
SpecEdit == InitMsg /\ [][NextEdit]_vars

\* A sendMessage handler (t1) racing a markAsRead handler (t2) whose client
\* names every message it can see: all unread messages addressed to it.
MarkAllReadStep(t) ==
  \/ \E s \in Sockets, c \in ConvIds :
       MarkAsReadStart(t, s, c, UnreadMessages(c, sockets[s]))
  \/ MarkAsReadFind(t)
  \/ MarkAsReadSave(t)

NextRace == SendMessageStep("t1") \/ MarkAllReadStep("t2")
SpecRace == InitConv /\ [][NextRace]_vars

\* Contents of a sendMessage payload: a text, a blank text, and "" for a
\* payload without content (`if (content)` leaves the field out and the
\* stored message has no text).
SendAnyContents == {"hi", " ", ""}

\* sendMessage handlers, one at a time, whose payload has no image and any
\* of these contents.
SendAnyStep(t) ==
  \/ \E s \in Sockets, c \in ConvIds, content \in SendAnyContents :
       \E rcpt \in Users \ {sockets[s]} :
         SendMessageStart(t, s, rcpt, c, content, NoImage)
  \/ SendMessageFind(t)
  \/ SendMessageSave(t)

NextSendAny == SendAnyStep("t1")
SpecSendAny == InitConv /\ [][NextSendAny]_vars


\* sendMessage handlers, one at a time, any of whose persistence calls may
\* fail.
SendFailStep(t) ==
  \/ \E s \in Sockets : SendMessageInsertThrows(t, s)
  \/ SendMessageThrows(t, "find")
  \/ SendMessageThrows(t, "save")

NextSendFail == SendMessageStep("t1") \/ SendFailStep("t1")
SpecSendFail == InitConv /\ [][NextSendFail]_vars

\* sendMessage handlers, one at a time, while the connections join and
\* leave the conversation rooms.
NextNotify ==
  \/ SendMessageStep("t1")
  \/ \E s \in Sockets, c \in ConvIds : JoinConversation(s, c)
  \/ \E s \in Sockets, c \in ConvIds : LeaveConversation(s, c)
SpecNotify == InitConv /\ [][NextNotify]_vars

\* sendMessage handlers, one at a time, whose client names any user as the
\* recipient: the other participant, or a user outside the conversation.
SendToStep(t) ==
  \/ \E s \in Sockets, c \in ConvIds, content \in SendContents :
       \E rcpt \in RestUsers \ {sockets[s]} :
         SendMessageStart(t, s, rcpt, c, content, NoImage)
  \/ SendMessageFind(t)
  \/ SendMessageSave(t)

NextSendTo == SendToStep("t1")
SpecSendTo == InitConv /\ [][NextSendTo]_vars

\* Handshakes with any token, disconnects, joins and leaves on the empty
\* server.
NextAuth ==
  \/ \E s \in Sockets, token \in Tokens : Handshake(s, token)
  \/ \E s \in Sockets : Disconnect(s)
  \/ \E s \in Sockets, c \in ConvIds : JoinConversation(s, c)
SpecAuth == Init /\ [][NextAuth]_vars

\* markAsRead handlers any of whose persistence calls may fail.
MarkFailStep(t) ==
  \/ \E s \in Sockets : MarkAsReadUpdateThrows(t, s)
  \/ MarkAsReadThrows(t, "find")
  \/ MarkAsReadThrows(t, "save")

\* sendMessage and markAsRead handlers, one at a time, with failing
\* persistence calls.
NextOpFail ==
  \/ SendMessageStep("t1")
  \/ SendFailStep("t1")
  \/ MarkAsReadStep("t1")
  \/ MarkFailStep("t1")
SpecOpFail == InitConv /\ [][NextOpFail]_vars

\* The isTyping flag of a typing event.
TypingFlags == {"true", "false"}

\* Connections, rooms and typing events on the empty server.
NextTyping ==
  \/ \E s \in Sockets, u \in Users : Connect(s, u)
  \/ \E s \in Sockets : Disconnect(s)
  \/ \E s \in Sockets, c \in ConvIds : JoinConversation(s, c)
  \/ \E s \in Sockets, c \in ConvIds : LeaveConversation(s, c)
  \/ \E s \in Sockets, c \in ConvIds, isTyping \in TypingFlags : Typing(s, c, isTyping)
SpecTyping == Init /\ [][NextTyping]_vars

\* A reader whose client supplies any message ids, its own unread messages
\* or others.
MarkAnyStep(t) ==
  \/ \E s \in Sockets, c \in ConvIds :
       \E ids \in SUBSET MsgIds : MarkAsReadStart(t, s, c, ids)
  \/ MarkAsReadFind(t)
  \/ MarkAsReadSave(t)

\* sendMessage and markAsRead handlers with any ids, one at a time.
NextMarkAny == SendMessageStep("t1") \/ MarkAnyStep("t1")
SpecMarkAny == InitConv /\ [][NextMarkAny]_vars

\* Two sendMessage handlers interleaving, any of whose persistence calls
\* may fail.
NextSendRaceFail ==
  \E t \in {"t1", "t2"} : SendMessageStep(t) \/ SendFailStep(t)
SpecSendRaceFail == InitConv /\ [][NextSendRaceFail]_vars

\* ------------------------------------------------------------ properties
AllIdle == \A t \in Tasks : Idle(t)

\* The unread counter of every participant of every conversation equals the
\* number of unread messages addressed to that participant.
CountersMatch ==
  \A c \in DOMAIN conversations : \A p \in Users :
    IsParticipant(conversations[c], p) =>
      UnreadGet(conversations[c], p) = Cardinality(UnreadMessages(c, p))

\* C1: after any sequence of completed send-message and mark-read
\* operations, none interleaved, unreadCount[p] of every conversation equals
\* the number of its unread messages addressed to p (SpecConvSeq).
C1_UnreadCountMatches == AllIdle => CountersMatch

\* C2: once concurrent sendMessage handlers on the existing conversation c1
\* have all completed, each recipient's counter has grown by the number of
\* messages sent to it: no increment is lost (SpecSend).
C2_NoLostIncrement ==
  AllIdle =>
    \A p \in Users :
      UnreadGet(conversations["c1"], p) =
        Cardinality({m \in DOMAIN messages : /\ messages[m].conversationId = "c1"
                                             /\ messages[m].recipient = p})

\* C3: after a markAsRead of p and a sendMessage addressed to p interleaved
\* on the same conversation and both completed, unreadCount[p] equals the
\* number of messages addressed to p that are still unread (SpecRace).
C3_MarkReadRaceKeepsCount ==
  (Idle("t1") /\ Idle("t2")) => CountersMatch

\* C4: while a user has a live connection the user stays in the presence
\* registry and no offline status of that user is broadcast (SpecPresence).
C4_OnlineWhileConnected ==
  \A u \in Users :
    (\E s \in Sockets : sockets[s] = u) =>
      /\ onlineUsers[u] # NoSocket
      /\ \A e \in emitted : ~(e.name = "userStatus" /\ e.user = u /\ e.text = "offline")

\* The number of reactions of user u with emoji e in the array rs.
ReactionCount(rs, u, e) ==
  Cardinality({i \in DOMAIN rs : rs[i].user = u /\ rs[i].emoji = e})

\* The (user, emoji) pairs of the array rs.
ReactionPairs(rs) == {<<rs[i].user, rs[i].emoji>> : i \in DOMAIN rs}

\* C5: when u1 and u2 toggle the same emoji on message 1 and both load the
\* message before either saves, then after both have completed the stored
\* array holds exactly one reaction of u1 and exactly one of u2
\* (SpecReactPair: two saved toggles means both handlers ran).
C5_ConcurrentReactionsBothKept ==
  (Idle("t1") /\ Idle("t2") /\ messages[1].version = 2) =>
    /\ ReactionCount(messages[1].reactions, "u1", "like") = 1
    /\ ReactionCount(messages[1].reactions, "u2", "like") = 1
    /\ Len(messages[1].reactions) = 2

C5_BothToggled ==
  /\ Idle("t1") /\ Idle("t2")
  /\ messages[1].version = 2
  /\ ReactionPairs(messages[1].reactions) = {<<"u1", "like">>, <<"u2", "like">>}

\* C6: in every reachable state each message holds at most one reaction for
\* any (user, emoji) pair (SpecReact).
C6_AtMostOneReactionPerPair ==
  \A m \in DOMAIN messages : \A u \in Users, e \in Emojis :
    ReactionCount(messages[m].reactions, u, e) <= 1

\* The message after an addReaction handler of user u with emoji e ran on it
\* from load to save with nothing in between.
ToggleRun(doc, u, e) ==
  LET k == [mode |-> ToggleMode(doc.reactions, u, e),
            reactions |-> ToggledReactions(doc.reactions, u, e),
            version |-> doc.version]
  IN [doc EXCEPT !.reactions = SavedReactions(doc, k), !.version = @ + 1]

\* C7: for every stored message, user and emoji, two successive runs of the
\* toggle with the same (user, emoji) and nothing in between leave the set of
\* (user, emoji) pairs of the message as it was; and the same holds when the
\* first of the two runs is a handler in flight that nothing has interleaved
\* with since its load (SpecReact).
C7_ToggleTwiceRestores ==
  /\ \A m \in DOMAIN messages : \A u \in Users, e \in Emojis :
       ReactionPairs(ToggleRun(ToggleRun(messages[m], u, e), u, e).reactions)
         = ReactionPairs(messages[m].reactions)
  /\ \A t \in Tasks :
       (/\ tasks[t].op = "addReaction"
        /\ tasks[t].version = messages[tasks[t].msg].version) =>
         LET k == tasks[t]
             doc == messages[k.msg]
             once == [doc EXCEPT !.reactions = SavedReactions(doc, k)]
         IN ReactionPairs(ToggleRun(once, k.user, k.emoji).reactions)
              = ReactionPairs(doc.reactions)

\* A message that was toggled on and off again: two saved toggles, and the
\* array is empty as at the start.
C7_ToggledTwice ==
  /\ AllIdle
  /\ messages[1].version = 2
  /\ messages[1].reactions = <<>>

PermissionTexts ==
  {"You can only edit your own messages", "You can only delete your own messages"}

\* The request was refused with the response e: no message changed, and no
\* handler is left in flight that could change or broadcast one.
Refused(e) ==
  /\ messages' = messages
  /\ tasks' = tasks
  /\ emitted' = {e}

\* A step that is an edit or delete request on an existing message, over a
\* socket or over REST, by a user who is not the sender of the message.
NonSenderRequest ==
  \E t \in Tasks, m \in DOMAIN messages :
    \/ \E s \in Sockets, content \in EditContents :
         /\ sockets[s] # NoUser /\ messages[m].sender # sockets[s]
         /\ EditMessageStart(t, s, m, content)
    \/ \E s \in Sockets :
         /\ sockets[s] # NoUser /\ messages[m].sender # sockets[s]
         /\ DeleteMessageStart(t, s, m)
    \/ \E u \in RestUsers, content \in EditContents :
         /\ messages[m].sender # u
         /\ RestEditMessageStart(t, u, m, content)
    \/ \E u \in RestUsers :
         /\ messages[m].sender # u
         /\ RestDeleteMessageStart(t, u, m)

C9_DeleteEffect ==
  [][\A t \in Tasks :
       (DeleteMessageSave(t) \/ RestDeleteMessageSave(t)) =>
         /\ DOMAIN messages' = DOMAIN messages
         /\ messages'[tasks[t].msg] =
              [messages[tasks[t].msg] EXCEPT !.deleted = TRUE,
                                             !.content = TOMBSTONE,
                                             !.image = NoImage]]_vars

\* C10: in every reachable state a deleted message has the tombstone as its
\* content and no image (SpecEdit).
C10_DeletedIsTombstoned ==
  \A m \in DOMAIN messages :
    messages[m].deleted =>
      messages[m].content = TOMBSTONE /\ messages[m].image = NoImage

\* C11: a sendMessage whose payload has no image and whose content is
\* absent or trims to empty is refused: an error event goes to the sending
\* socket, no message is persisted, no handler is left in flight that could
\* change lastMessage or an unread counter, and neither newMessage nor
\* messageNotification is emitted (SpecSendAny).
C11_BlankSendRefused ==
  [][\A t \in Tasks, s \in Sockets, c \in ConvIds, rcpt \in Users :
       \A content \in SendAnyContents :
         (/\ Trim(content) = ""
          /\ SendMessageStart(t, s, rcpt, c, content, NoImage))
         => /\ messages' = messages
            /\ conversations' = conversations
            /\ tasks' = tasks
            /\ \E e \in emitted' : e.kind = "socket" /\ e.dest = s
            /\ \A e \in emitted' :
                 e.name \notin {"newMessage", "messageNotification"}]_vars

\* C12: an edit requested by the sender of an existing message with a new
\* content that trims to empty is refused with an error to the requester
\* and leaves the message as it was, with no handler left in flight that
\* could change it or broadcast messageEdited; over the sockets as over
\* REST (SpecEdit).
C12_BlankEditRefused ==
  [][\A t \in Tasks, m \in DOMAIN messages :
       \A content \in EditContents :
         Trim(content) = "" =>
           /\ \A s \in Sockets :
                (/\ sockets[s] = messages[m].sender
                 /\ EditMessageStart(t, s, m, content))
                => /\ messages' = messages
                   /\ tasks' = tasks
                   /\ \E e \in emitted' : e.name = "editError" /\ e.dest = s
           /\ \A u \in RestUsers :
                (/\ u = messages[m].sender
                 /\ RestEditMessageStart(t, u, m, content))
                => Refused(HttpResponse(u, 400, "Message content cannot be empty"))
    ]_vars

\* The messages of conversation c.
MessagesOf(c) == {m \in DOMAIN messages : messages[m].conversationId = c}

\* C13: with sendMessage handlers running one at a time and any of their
\* persistence calls possibly failing, whenever no send is in progress every
\* persisted message is reflected by its conversation: the conversation
\* exists, its lastMessage is the newest message of the conversation, and
\* the recipient's unread counter counts the message (SpecSendFail).
C13_NoPartialSend ==
  AllIdle =>
    \A m \in DOMAIN messages :
      LET c == messages[m].conversationId
          r == messages[m].recipient
      IN /\ c \in DOMAIN conversations
         /\ \A x \in MessagesOf(c) : x <= conversations[c].lastMessage
         /\ UnreadGet(conversations[c], r) =
              Cardinality({x \in MessagesOf(c) : messages[x].recipient = r})

\* The sockets reached by the events called name among those just emitted.
Reached(name) == UNION {Receivers(e) : e \in {x \in emitted : x.name = name}}

\* C14: when a sendMessage has just succeeded (newMessage was emitted for
\* its message), the sockets that receive messageNotification are exactly
\* the live sockets of the recipient that are not joined to the room of the
\* conversation (SpecNotify).
C14_NotificationTargets ==
  \A e \in emitted :
    e.name = "newMessage" =>
      Reached("messageNotification") =
        {s \in Sockets : /\ sockets[s] = messages[e.msg].recipient
                         /\ e.dest \notin rooms[s]}

\* C15: whenever no sendMessage handler is in progress, the lastMessage of
\* every conversation that has messages is the message of that conversation
\* created last, however the handlers interleaved (SpecSend).
C15_LastMessageIsNewest ==
  AllIdle =>
    \A c \in DOMAIN conversations :
      MessagesOf(c) # {} =>
        /\ conversations[c].lastMessage \in MessagesOf(c)
        /\ \A x \in MessagesOf(c) : x <= conversations[c].lastMessage

\* C16: every persisted conversation has each of its participants as a key
\* of its unreadCount map, a conversation created by sendMessage's
\* defensive path included (SpecConvSeq).
C16_BothParticipantsCounted ==
  \A c \in DOMAIN conversations :
    \A i \in DOMAIN conversations[c].participants :
      conversations[c].participants[i] \in DOMAIN conversations[c].unreadCount

\* The set of participants of a conversation.
ParticipantSet(conv) == {conv.participants[i] : i \in DOMAIN conv.participants}

\* C17: whenever no sendMessage handler is in progress, every persisted
\* message belongs to a persisted conversation whose participants are
\* exactly the sender and the recipient of the message, whatever
\* recipientId and conversationId the clients supplied (SpecSendTo).
C17_MessageMatchesConversation ==
  AllIdle =>
    \A m \in DOMAIN messages :
      /\ messages[m].conversationId \in DOMAIN conversations
      /\ ParticipantSet(conversations[messages[m].conversationId])
           = {messages[m].sender, messages[m].recipient}

\* C18: a handshake whose token is missing or is not a token issued to a
\* user is answered with an authentication error to the client and connects
\* nothing: no socket is bound, the presence registry and the rooms are as
\* before and no userStatus is broadcast; a handshake with the token
\* issued to user u binds the socket to u and registers it for u (SpecAuth).
C18_HandshakeAuthenticated ==
  [][\A s \in Sockets, token \in Tokens :
       Handshake(s, token) =>
         IF token \notin IssuedTokens
         THEN /\ sockets' = sockets
              /\ onlineUsers' = onlineUsers
              /\ rooms' = rooms
              /\ \A e \in emitted' : e.name = "connect_error" /\ e.dest = s
              /\ emitted' # {}
         ELSE \E u \in Users :
                /\ TokenFor[u] = token
                /\ sockets'[s] = u
                /\ onlineUsers'[u] = s]_vars

\* A handshake has just been refused while another socket is connected and
\* registered for its user.
C18_HandshakeRefused ==
  /\ \E e \in emitted : e.name = "connect_error" /\ sockets[e.dest] = NoUser
  /\ \E s \in Sockets : sockets[s] # NoUser /\ onlineUsers[sockets[s]] = s

\* The step reports an error to socket s and to no other socket, and s
\* stays connected.
ErrorOnlyTo(s) ==
  /\ \E e \in emitted' : Receivers(e) = {s}
  /\ \A e \in emitted' : Receivers(e) \subseteq {s}
  /\ sockets'[s] = sockets[s]

\* C19: every step in which a persistence call of a sendMessage or
\* markAsRead handler fails reports an error event to the socket that
\* triggered the handler and to no other socket, and that socket stays
\* connected (SpecOpFail).
C19_FailureReported ==
  [][\A t \in Tasks :
       /\ \A s \in Sockets :
            (SendMessageInsertThrows(t, s) \/ MarkAsReadUpdateThrows(t, s))
            => ErrorOnlyTo(s)
       /\ \A pc \in {"find", "save"} :
            (SendMessageThrows(t, pc) \/ MarkAsReadThrows(t, pc))
            => ErrorOnlyTo(tasks[t].sock)]_vars

\* C20: a typing event of socket s for conversation c is relayed as
\* userTyping, carrying the user of s and the flag, to exactly the live
\* sockets joined to the room of c other than s, and leaves the messages,
\* the conversations, the connections, the presence registry and the room
\* memberships as they were (SpecTyping).
C20_TypingRelayed ==
  [][\A s \in Sockets, c \in ConvIds, isTyping \in TypingFlags :
       Typing(s, c, isTyping) =>
         /\ messages' = messages /\ conversations' = conversations
         /\ sockets' = sockets /\ onlineUsers' = onlineUsers /\ rooms' = rooms
         /\ emitted' # {}
         /\ \A e \in emitted' :
              /\ e.name = "userTyping"
              /\ e.user = sockets[s] /\ e.text = isTyping
              /\ Receivers(e) =
                   {x \in Sockets : sockets[x] # NoUser /\ c \in rooms[x] /\ x # s}
    ]_vars

\* A typing event of a socket that is itself joined to the room has just
\* been relayed to another socket of the room.
C20_TypingSeen ==
  \E e \in emitted :
    /\ e.name = "userTyping"
    /\ e.dest \in rooms[e.from]
    /\ Receivers(e) # {}

\* C21: a markAsRead of user u for conversation c changes the read flag
\* only of messages of c addressed to u, whatever ids the client supplies;
\* and the save that completes it leaves unreadCount[u] of c at 0 and
\* broadcasts messagesRead, naming u and the ids, to the room of c
\* (SpecMarkAny).
C21_MarkReadOwnMessagesOnly ==
  [][\A t \in Tasks :
       /\ \A s \in Sockets, c \in ConvIds, ids \in SUBSET MsgIds :
            MarkAsReadStart(t, s, c, ids) =>
              \A m \in DOMAIN messages :
                messages'[m].read # messages[m].read =>
                  /\ messages[m].recipient = sockets[s]
                  /\ messages[m].conversationId = c
       /\ MarkAsReadSave(t) =>
            /\ UnreadGet(conversations'[tasks[t].conv], tasks[t].user) = 0
            /\ emitted' = {MessagesRead(tasks[t].conv, tasks[t].user, tasks[t].ids)}
    ]_vars

\* C22: in every reachable state each entry of onlineUsers names a socket
\* that is connected and bound to the user of the entry, whatever connects
\* and disconnects happened, several connections of one user included
\* (SpecPresence).
C22_RegistryNamesLiveSocket ==
  \A u \in Users :
    onlineUsers[u] # NoSocket => sockets[onlineUsers[u]] = u

\* A socket has just disconnected while a user with two live connections
\* has an entry in the registry.
C22_EntryAfterDisconnect ==
  /\ \E e \in emitted : e.name = "userStatus" /\ e.text = "offline"
  /\ \E u \in Users :
       /\ Cardinality({s \in Sockets : sockets[s] = u}) = 2
       /\ onlineUsers[u] # NoSocket

\* The step of handler t ends a sendMessage in its catch block: a
\* persistence call threw, the duplicate-key failure of the save of a new
\* conversation included.
SendFails(t) ==
  \/ \E s \in Sockets : SendMessageInsertThrows(t, s)
  \/ \E pc \in {"find", "save"} : SendMessageThrows(t, pc)
  \/ /\ SendMessageSave(t)
     /\ ~tasks[t].found
     /\ tasks[t].conv \in DOMAIN conversations

\* C23: every step that emits newMessage or messageNotification for a
\* message m leaves m persisted and its conversation persisted with
\* lastMessage m and a positive unread counter of m's recipient; and a step
\* in which a sendMessage fails emits nothing but one messageError, to a
\* single socket (SpecSendRaceFail).
C23_BroadcastAfterPersist ==
  [][/\ \A e \in emitted' :
          e.name \in {"newMessage", "messageNotification"} =>
            /\ e.msg \in DOMAIN messages'
            /\ messages'[e.msg].conversationId \in DOMAIN conversations'
            /\ conversations'[messages'[e.msg].conversationId].lastMessage = e.msg
            /\ UnreadGet(conversations'[messages'[e.msg].conversationId],
                         messages'[e.msg].recipient) >= 1
     /\ \A t \in Tasks :
          SendFails(t) =>
            /\ Cardinality(emitted') = 1
            /\ \A e \in emitted' : e.name = "messageError" /\ e.kind = "socket"
    ]_vars

\* Message 1 was inserted for conversation c2 and its send failed before
\* c2 was created; then the send of message 2 succeeded and was broadcast.
C23_BroadcastAfterFailedSend ==
  /\ AllIdle
  /\ Len(messages) = 2
  /\ messages[1].conversationId = "c2"
  /\ "c2" \notin DOMAIN conversations
  /\ \E e \in emitted : e.name = "newMessage" /\ e.msg = 2

====
